---- MODULE Spec2Model ----
(***************************************************************************)
(* Model of src/src/index.ts: the /pdf service.                            *)
(*                                                                         *)
(*   - the pure pipeline: escapeHtml, extractRowsFromTableHTML, the card   *)
(*     normalisation of the /pdf handler and buildHtmlDoc;                 *)
(*   - the asynchronous part: the module-level `browser` reference,        *)
(*     getBrowser and the /pdf handler, one step per await.                *)
(*                                                                         *)
(* Text is a sequence of one-character strings.  An HTML fragment is a     *)
(* sequence of tokens: a token is either a complete tag ("<tr>", "<br/>")  *)
(* or one character of text.  The regular expressions of the source only   *)
(* look at whole tags and at whitespace, so they are modelled on tokens.   *)
(***************************************************************************)
EXTENDS Integers, Sequences, FiniteSets, TLC

VARIABLES
    browser,   \* index.ts:146  the cached engine instance: 0 is null, else an index of inst
    inst,      \* the engine instances launched so far: "live", "closing" or "closed"
    req,       \* one record per /pdf request: where its handler is suspended, what it sent
    stage,     \* pipeline specifications: "input" before the function is applied, "done" after
    input,     \* pipeline specifications: the argument drawn in Init
    output     \* pipeline specifications: the function's result

vars == <<browser, inst, req, stage, input, output>>

-----------------------------------------------------------------------------
(* Sequence helpers                                                        *)

Range(s) == {s[i] : i \in 1..Len(s)}

RECURSIVE Flatten(_)
Flatten(ss) == IF ss = <<>> THEN <<>> ELSE Head(ss) \o Flatten(Tail(ss))

RECURSIVE SeqsUpTo(_, _)
\* every sequence over S of length at most n
SeqsUpTo(S, n) ==
    IF n = 0 THEN {<<>>}
    ELSE LET shorter == SeqsUpTo(S, n - 1)
         IN  shorter \cup {Append(s, x) : s \in {t \in shorter : Len(t) = n - 1}, x \in S}

-----------------------------------------------------------------------------
(* Tokens: what the regular expressions of extractRowsFromTableHTML match  *)

\* /<tbody[^>]*>/i and /<\/tbody>/i
TbodyOpenTags  == {"<tbody>", "<TBODY>", "<tbody class=g>"}
TbodyCloseTags == {"</tbody>", "</TBODY>"}
\* /<tr[^>]*>/gi and /<\/tr>/gi
TrOpenTags  == {"<tr>", "<TR>", "<tr class=odd>"}
TrCloseTags == {"</tr>", "</TR>"}
\* /<td[^>]*>/gi and /<\/td>/gi
TdOpenTags  == {"<td>", "<TD>", "<td class=hin>"}
TdCloseTags == {"</td>", "</TD>"}
\* /<br\s*\/?>/gi
BrTags == {"<br>", "<br/>", "<br />", "<BR>"}
\* tags no expression of the extractor names; /<[^>]+>/g strips them like every tag
OtherTags == {"<table>", "</table>", "<thead>", "</thead>", "<th>", "</th>",
              "<b>", "</b>", "<p>", "</p>"}
Tags == TbodyOpenTags \cup TbodyCloseTags \cup TrOpenTags \cup TrCloseTags
          \cup TdOpenTags \cup TdCloseTags \cup BrTags \cup OtherTags
\* \s of a JavaScript regular expression, and what String.prototype.trim removes
WhiteSpace == {" ", "\n", "\t"}

\* The first index j >= i of s with s[j] in T; 0 when there is none.
FirstFrom(s, i, T) ==
    IF \E j \in i..Len(s) : s[j] \in T
    THEN CHOOSE j \in i..Len(s) : s[j] \in T /\ \A k \in i..(j - 1) : s[k] \notin T
    ELSE 0

\* One exec of /<open[^>]*>([\s\S]*?)<\/close>/ with lastIndex i: the leftmost
\* opening tag at or after i that a closing tag follows, the lazy group up to
\* the first such closing tag, and the lastIndex it leaves.
RegexExec(s, i, Open, Close) ==
    LET o == FirstFrom(s, i, Open)
        c == IF o = 0 THEN 0 ELSE FirstFrom(s, o + 1, Close)
    IN  IF o = 0 \/ c = 0
        THEN [found |-> FALSE, group |-> <<>>, lastIndex |-> 0]
        ELSE [found |-> TRUE, group |-> SubSeq(s, o + 1, c - 1), lastIndex |-> c + 1]

-----------------------------------------------------------------------------
(* extractRowsFromTableHTML, index.ts:26-57                                *)

\* .replace(/<br\s*\/?>/gi, "\n")
ReplaceBr(td) == [i \in 1..Len(td) |-> IF td[i] \in BrTags THEN "\n" ELSE td[i]]

\* .replace(/<[^>]+>/g, "")
StripTags(s) == SelectSeq(s, LAMBDA t : t \notin Tags)

RECURSIVE CollapseSpace(_)
\* .replace(/\s+/g, " ")
CollapseSpace(s) ==
    IF s = <<>> THEN <<>>
    ELSE IF Head(s) \in WhiteSpace
         THEN LET n == FirstFrom(s, 1, Range(s) \ WhiteSpace)
              IN  <<" ">> \o (IF n = 0 THEN <<>> ELSE CollapseSpace(SubSeq(s, n, Len(s))))
         ELSE <<Head(s)>> \o CollapseSpace(Tail(s))

\* String.prototype.trim
Trim(s) ==
    LET keep == {i \in 1..Len(s) : s[i] \notin WhiteSpace}
    IN  IF keep = {} THEN <<>>
        ELSE SubSeq(s, CHOOSE i \in keep : \A k \in keep : i <= k,
                       CHOOSE i \in keep : \A k \in keep : i >= k)

\* index.ts:38-42: the text of one cell
CellText(td) == Trim(CollapseSpace(StripTags(ReplaceBr(td))))

RECURSIVE TdCells(_, _)
\* index.ts:34-44: the cells of one row block, scanning from lastIndex i
TdCells(tr, i) ==
    LET td == RegexExec(tr, i, TdOpenTags, TdCloseTags)
    IN  IF ~td.found THEN <<>>
        ELSE <<CellText(td.group)>> \o TdCells(tr, td.lastIndex)

\* RowOfCells without the test of the third cell (`snoRaw && enRaw`)
RowOfCells_ThirdUnchecked(cells) ==
    IF Len(cells) >= 3 /\ cells[1] # <<>> /\ cells[2] # <<>>
    THEN <<[sno |-> Trim(cells[1]), en |-> Trim(cells[2]), hi |-> Trim(cells[3])]>>
    ELSE <<>>

\* index.ts:45-54: the Row a row block's cells give, as a sequence of 0 or 1 Rows
RowOfCells(cells) ==
    IF Len(cells) >= 3 /\ cells[1] # <<>> /\ cells[2] # <<>> /\ cells[3] # <<>>
    THEN <<[sno |-> Trim(cells[1]), en |-> Trim(cells[2]), hi |-> Trim(cells[3])]>>
    ELSE <<>>

RECURSIVE TrRows(_, _)
\* index.ts:31-55: the loop over the row blocks of the scope
TrRows(scope, i) ==
    LET tr == RegexExec(scope, i, TrOpenTags, TrCloseTags)
    IN  IF ~tr.found THEN <<>>
        ELSE RowOfCells(TdCells(tr.group, 1)) \o TrRows(scope, tr.lastIndex)

\* TbodyScope that always scans the whole fragment
TbodyScope_WholeFragment(html) == html

\* index.ts:28-29
TbodyScope(html) ==
    LET tbodyMatch == RegexExec(html, 1, TbodyOpenTags, TbodyCloseTags)
    IN  IF tbodyMatch.found THEN tbodyMatch.group ELSE html

extractRowsFromTableHTML(html) == TrRows(TbodyScope(html), 1)

-----------------------------------------------------------------------------
(* Fragments the extractor is applied to                                   *)

MaxRows == 2

\* the markup found between <td> and </td>: nothing, a line break and a blank
\* (no text), a plain character, text with a line break, a tag and blanks
EmptyCell == <<>>
BlankCell == <<"<br>", " ">>
PlainCell == <<"1">>
RichCell  == <<" ", "a", "<br/>", "<b>", "b", "</b>", "\t">>
CellSources == {EmptyCell, BlankCell, PlainCell, RichCell}

\* the cells of one <tr>: rows of three cells, each cell with or without text;
\* rows of two cells; rows of four cells (three cells followed by one more)
RowShapes ==
    {<<a, b, c>> : a \in {EmptyCell, PlainCell, RichCell},
                   b \in {BlankCell, RichCell},
                   c \in {EmptyCell, PlainCell, RichCell}}
    \cup {<<PlainCell, RichCell>>, <<RichCell, PlainCell>>}
    \cup {<<PlainCell, b, c, <<"x">>>> : b, c \in {EmptyCell, PlainCell}}
    \cup {<<EmptyCell, PlainCell, PlainCell, <<"x">>>>}

\* a header row written with <td> cells, and the row of a second <tbody>
HeaderRow == <<<<"S">>, <<"E">>, <<"H">>>>
SecondBodyRow == <<<<"9">>, <<"y">>, <<"z">>>>

\* where the rows stand in the fragment
Wraps == {"bare", "tbody", "thead+tbody", "thead", "thead+opentbody", "tbody+tbody"}

RowTokens(cells) ==
    <<"<tr>">> \o Flatten([i \in 1..Len(cells) |-> <<"<td>">> \o cells[i] \o <<"</td>">>])
               \o <<"</tr>">>

RowsTokens(rows) == Flatten([i \in 1..Len(rows) |-> RowTokens(rows[i])])

TheadTokens == <<"<thead>">> \o RowTokens(HeaderRow) \o <<"</thead>">>

FragmentTokens(wrap, rows) ==
    LET body == RowsTokens(rows)
    IN  <<"<table>">> \o
        (CASE wrap = "bare"            -> body
           [] wrap = "tbody"           -> <<"<tbody>">> \o body \o <<"</tbody>">>
           [] wrap = "thead+tbody"     -> TheadTokens \o <<"<TBODY>">> \o body \o <<"</TBODY>">>
           [] wrap = "thead"           -> TheadTokens \o body
           [] wrap = "thead+opentbody" -> TheadTokens \o <<"<tbody>">> \o body
           [] wrap = "tbody+tbody"     -> <<"<tbody>">> \o body \o <<"</tbody>">> \o
                                          <<"<tbody>">> \o RowTokens(SecondBodyRow) \o <<"</tbody>">>)
        \o <<"</table>">>

Fragments ==
    {[wrap |-> w, rows |-> rs, html |-> FragmentTokens(w, rs)] :
        w \in Wraps, rs \in SeqsUpTo(RowShapes, MaxRows)}

-----------------------------------------------------------------------------
(* The server's state while a pipeline function is checked, and back       *)

ServerIdle == browser = 0 /\ inst = <<>> /\ req = <<>>
PipelineIdle == stage = "off" /\ input = <<>> /\ output = <<>>

-----------------------------------------------------------------------------
(* SpecExtract: extractRowsFromTableHTML applied to every fragment         *)

InitExtract == ServerIdle /\ stage = "input" /\ input \in Fragments /\ output = <<>>

Extract ==
    /\ stage = "input"
    /\ stage' = "done"
    /\ output' = extractRowsFromTableHTML(input.html)
    /\ UNCHANGED <<browser, inst, req, input>>

SpecExtract == InitExtract /\ [][Extract]_vars

\* a cell that shows something: a character that is neither a tag nor whitespace
HasText(cell) == \E i \in 1..Len(cell) : cell[i] \notin Tags \cup WhiteSpace

Qualifies(cells) == Len(cells) >= 3 /\ \A k \in 1..3 : HasText(cells[k])

\* whether the fragment holds a <tbody>...</tbody> region
HasTbodyRegion(f) == f.wrap \in {"tbody", "thead+tbody", "tbody+tbody"}
HasThead(f) == f.wrap \in {"thead+tbody", "thead", "thead+opentbody"}

\* the <tr> blocks of the scanned region, as the cells they were written with
ScannedRows(f) ==
    IF HasTbodyRegion(f) \/ ~HasThead(f) THEN f.rows ELSE <<HeaderRow>> \o f.rows

QualifyingRows(rows) == SelectSeq(rows, Qualifies)

IsTrimmedText(s) ==
    /\ s # <<>>
    /\ s[1] \notin WhiteSpace
    /\ s[Len(s)] \notin WhiteSpace

\* C6: extractRowsFromTableHTML returns, in document order, exactly one Row for
\* each <tr> block of the scanned region with at least 3 <td> cells of which the
\* first three have text, and none for any other <tr>; each Row's fields are the
\* non-empty trimmed texts of cells 1, 2 and 3 in that order.
C6_RowPerQualifyingTr ==
    stage = "done" =>
        LET want == QualifyingRows(ScannedRows(input))
        IN  /\ Len(output) = Len(want)
            /\ \A k \in 1..Len(want) :
                  /\ output[k].sno = CellText(want[k][1])
                  /\ output[k].en = CellText(want[k][2])
                  /\ output[k].hi = CellText(want[k][3])
                  /\ IsTrimmedText(output[k].sno)
                  /\ IsTrimmedText(output[k].en)
                  /\ IsTrimmedText(output[k].hi)

\* C6 witness: a fragment of two rows, one skipped for a blank third cell and one
\* of four cells kept with its first three
C6_Witness ==
    /\ stage = "done"
    /\ Len(input.rows) = 2
    /\ Len(input.rows[1]) = 3 /\ ~HasText(input.rows[1][3]) /\ HasText(input.rows[1][1])
    /\ Len(input.rows[2]) = 4 /\ Qualifies(input.rows[2])
    /\ Len(output) = 1

\* a cell written with a line-break marker
HasBr(cell) == \E i \in 1..Len(cell) : cell[i] \in BrTags

AllRowsThreeNonEmpty(rows) == \A k \in 1..Len(rows) : Len(rows[k]) = 3 /\ Qualifies(rows[k])

FieldOf(row, k) == CASE k = 1 -> row.sno [] k = 2 -> row.en [] k = 3 -> row.hi

\* C7 (as claimed): when every row has exactly 3 non-empty cells, the fields
\* hold no tag markup, and a cell written with a line-break marker gives a field
\* in which the newline is still present.
C7_BrKeptAsNewline ==
    (stage = "done" /\ AllRowsThreeNonEmpty(ScannedRows(input))) =>
        /\ Len(output) = Len(ScannedRows(input))
        /\ \A r \in 1..Len(output) : \A k \in 1..3 :
              /\ Range(FieldOf(output[r], k)) \cap Tags = {}
              /\ HasBr(ScannedRows(input)[r][k]) => "\n" \in Range(FieldOf(output[r], k))

\* C8: with a <tbody>...</tbody> region in the fragment only that region (the
\* first one) is scanned: the <tr> of the <thead> gives no Row although it holds
\* 3 non-empty <td> cells, and every qualifying <tr> of the region gives one;
\* without such a region the whole fragment is scanned, header row included.
HeaderAsRow == [sno |-> <<"S">>, en |-> <<"E">>, hi |-> <<"H">>]

C8_TbodyScoping ==
    stage = "done" =>
        LET body == Len(QualifyingRows(input.rows))
        IN  IF HasTbodyRegion(input)
            THEN /\ Len(output) = body
                 /\ \A k \in 1..Len(output) : output[k] # HeaderAsRow
            ELSE IF HasThead(input)
            THEN /\ Len(output) = body + 1
                 /\ output[1] = HeaderAsRow
            ELSE Len(output) = body

\* C8 witness: a <thead> row of 3 <td> cells before a <tbody> of two qualifying rows
C8_Witness ==
    /\ stage = "done"
    /\ input.wrap = "thead+tbody"
    /\ Len(input.rows) = 2 /\ AllRowsThreeNonEmpty(input.rows)
    /\ Len(output) = 2

-----------------------------------------------------------------------------
(* The synchronous head of the /pdf handler, index.ts:158-171               *)

\* index.ts:7-15, IncomingPayload.safeParse: title and cards of at least one
\* element, each card with a title and a description of at least one character
IncomingPayloadOk(body) ==
    /\ Len(body.title) >= 1
    /\ Len(body.cards) >= 1
    /\ \A i \in 1..Len(body.cards) :
          Len(body.cards[i].title) >= 1 /\ Len(body.cards[i].description) >= 1

\* Sections without the filter of index.ts:167
Sections_Unfiltered(cards) ==
    [i \in 1..Len(cards) |->
        [name |-> cards[i].title, rows |-> extractRowsFromTableHTML(cards[i].description)]]

\* index.ts:164-167: one section per card, the sections without rows dropped
Sections(cards) ==
    SelectSeq([i \in 1..Len(cards) |->
                  [name |-> cards[i].title,
                   rows |-> extractRowsFromTableHTML(cards[i].description)]],
              LAMBDA sec : Len(sec.rows) > 0)

\* index.ts:158-173: how the handler leaves its synchronous head: with one of the
\* two 400 responses, or with the document it hands to buildHtmlDoc
Normalize(body) ==
    IF ~IncomingPayloadOk(body)
    THEN [outcome |-> "invalid", doc |-> <<>>]
    ELSE LET sections == Sections(body.cards)
         IN  IF Len(sections) = 0
             THEN [outcome |-> "empty", doc |-> <<>>]
             ELSE [outcome |-> "render", doc |-> [title |-> body.title, sections |-> sections]]

-----------------------------------------------------------------------------
(* SpecNormalize: the handler's head applied to every payload              *)

MaxCards == 3

\* descriptions: no table, a table whose only row lacks a cell, a table of one
\* row, a table of two rows; and the empty string, which the schema rejects
NoTable     == <<"<p>", "n", "o", "</p>">>
ShortRow    == FragmentTokens("tbody", <<<<PlainCell, RichCell>>>>)
OneRow      == FragmentTokens("tbody", <<<<PlainCell, RichCell, PlainCell>>>>)
TwoRows     == FragmentTokens("thead+tbody",
                   <<<<PlainCell, PlainCell, RichCell>>, <<RichCell, PlainCell, PlainCell>>>>)
Descriptions == {NoTable, ShortRow, OneRow, TwoRows}

CardChoices ==
    [title : {<<"A">>, <<"B">>}, description : Descriptions]
    \cup {[title |-> <<>>, description |-> OneRow], [title |-> <<"A">>, description |-> <<>>]}

Payloads == [title : {<<>>, <<"T">>}, cards : SeqsUpTo(CardChoices, MaxCards)]

InitNormalize == ServerIdle /\ stage = "input" /\ input \in Payloads /\ output = <<>>

DoNormalize ==
    /\ stage = "input"
    /\ stage' = "done"
    /\ output' = Normalize(input)
    /\ UNCHANGED <<browser, inst, req, input>>

SpecNormalize == InitNormalize /\ [][DoNormalize]_vars

\* the cards whose fragment yields at least one row
Yielding(cards) == {i \in 1..Len(cards) : extractRowsFromTableHTML(cards[i].description) # <<>>}

\* C4: for a validated payload, if no card yields a row the request ends with the
\* empty-extraction error; otherwise the document's sections are exactly the
\* yielding cards in their original order, each named after its card, so the
\* document has at least one section and no section without rows.
C4_SectionsAreYieldingCards ==
    (stage = "done" /\ IncomingPayloadOk(input)) =>
        LET cards == input.cards
            rowsOf == [i \in 1..Len(cards) |-> extractRowsFromTableHTML(cards[i].description)]
            yes == {i \in 1..Len(cards) : rowsOf[i] # <<>>}
        IN  IF yes = {}
            THEN output.outcome = "empty"
            ELSE /\ output.outcome = "render"
                 /\ output.doc.title = input.title
                 /\ LET secs == output.doc.sections
                    IN  /\ Len(secs) = Cardinality(yes)
                        /\ Len(secs) >= 1
                        /\ \A k \in 1..Len(secs) : Len(secs[k].rows) >= 1
                        /\ \E f \in [1..Len(secs) -> yes] :
                              /\ \A j, k \in 1..Len(secs) : j < k => f[j] < f[k]
                              /\ \A k \in 1..Len(secs) :
                                    /\ secs[k].name = cards[f[k]].title
                                    /\ secs[k].rows = rowsOf[f[k]]

\* C4 witness: three cards, the middle one without rows, give two sections
C4_Witness ==
    /\ stage = "done"
    /\ IncomingPayloadOk(input)
    /\ Len(input.cards) = 3
    /\ Yielding(input.cards) = {1, 3}
    /\ input.cards[1].title # input.cards[3].title
    /\ output.outcome = "render"
    /\ Len(output.doc.sections) = 2

-----------------------------------------------------------------------------
(* escapeHtml and buildHtmlDoc, index.ts:21-23 and 59-141                   *)
(*                                                                         *)
(* The markup is a sequence of tokens: the template's fixed text is cut    *)
(* into its tags (one token each, the <style> block and the header row of  *)
(* a table being one token), and every ${...} of the template contributes  *)
(* the characters of the string it embeds.                                 *)

\* escapeHtml with the double quote left out of the character class
escapeHtml_QuoteForgotten(s) ==
    Flatten([i \in 1..Len(s) |->
        CASE s[i] = "&" -> <<"&", "a", "m", "p", ";">>
          [] s[i] = "<" -> <<"&", "l", "t", ";">>
          [] s[i] = ">" -> <<"&", "g", "t", ";">>
          [] OTHER      -> <<s[i]>>])

\* index.ts:21-23
escapeHtml(s) ==
    Flatten([i \in 1..Len(s) |->
        CASE s[i] = "&"  -> <<"&", "a", "m", "p", ";">>
          [] s[i] = "<"  -> <<"&", "l", "t", ";">>
          [] s[i] = ">"  -> <<"&", "g", "t", ";">>
          [] s[i] = "\"" -> <<"&", "q", "u", "o", "t", ";">>
          [] OTHER       -> <<s[i]>>])

\* Math.ceil(n / 2)
CeilHalf(n) == (n + 1) \div 2

\* splitRows with Math.floor in place of Math.ceil
splitRows_Floor(rows) ==
    LET mid == Len(rows) \div 2
    IN  <<SubSeq(rows, 1, mid), SubSeq(rows, mid + 1, Len(rows))>>

\* index.ts:63-66
splitRows(rows) ==
    LET mid == CeilHalf(Len(rows))
    IN  <<SubSeq(rows, 1, mid), SubSeq(rows, mid + 1, Len(rows))>>

\* index.ts:117-123: one <tr> of a pane's table
rowHtml(r) ==
    <<"<tr>", "<td>">> \o escapeHtml(r.sno) \o <<"</td>", "<td>">> \o escapeHtml(r.en)
        \o <<"</td>", "<td class=hin>">> \o escapeHtml(r.hi) \o <<"</td>", "</tr>">>

\* index.ts:112-126
tableHtml(rows) ==
    <<"<table>", "<colgroup>", "<thead>", "<tbody>">>
        \o Flatten([i \in 1..Len(rows) |-> rowHtml(rows[i])])
        \o <<"</tbody>", "</table>">>

\* index.ts:110-138: one section of the body
sectionHtml(sec) ==
    LET halves == splitRows(sec.rows)
    IN  <<"<div class=section>", "<h2>">> \o escapeHtml(sec.name) \o <<"</h2>">>
        \o <<"<div class=twocol>", "<div class=pane>">> \o tableHtml(halves[1]) \o <<"</div>">>
        \o <<"<div class=pane>">> \o tableHtml(halves[2]) \o <<"</div>", "</div>", "</div>">>

\* index.ts:59-141
buildHtmlDoc(data) ==
    <<"<!doctype html>", "<html>", "<head>", "<meta>", "<title>">> \o escapeHtml(data.title)
        \o <<"</title>", "<link>", "<style>", "</head>", "<body>", "<h1>">>
        \o escapeHtml(data.title) \o <<"</h1>">>
        \o Flatten([i \in 1..Len(data.sections) |-> sectionHtml(data.sections[i])])
        \o <<"</body>", "</html>">>

\* the tokens of the template
TemplateTokens ==
    {"<!doctype html>", "<html>", "<head>", "<meta>", "<title>", "</title>", "<link>",
     "<style>", "</head>", "<body>", "<h1>", "</h1>", "</body>", "</html>",
     "<div class=section>", "<h2>", "</h2>", "<div class=twocol>", "<div class=pane>",
     "</div>", "<table>", "<colgroup>", "<thead>", "<tbody>", "</tbody>", "</table>",
     "<tr>", "<td>", "<td class=hin>", "</td>", "</tr>"}

-----------------------------------------------------------------------------
(* SpecRender: buildHtmlDoc applied to documents                            *)

MaxTextLen == 3
MaxSections == 2
MaxRowsPerSection == 3

\* the four characters escapeHtml replaces, and one it leaves alone
TextChars == {"&", "<", ">", "\"", "a"}
Texts == SeqsUpTo(TextChars, MaxTextLen) \ {<<>>}

DigitChars == <<"1", "2", "3", "4", "5", "6", "7", "8", "9">>

\* which kind of field carries the text under test; the others carry plain labels
FieldKinds == {"title", "name", "sno", "en", "hi"}

\* the document of the given shape (shape[i] rows in section i)
DocOf(shape, kind, text) ==
    [title |-> IF kind = "title" THEN text ELSE <<"T">>,
     sections |-> [i \in 1..Len(shape) |->
        [name |-> IF kind = "name" THEN text ELSE <<"N", DigitChars[i]>>,
         rows |-> [j \in 1..shape[i] |->
            [sno |-> IF kind = "sno" THEN text ELSE <<DigitChars[j]>>,
             en  |-> IF kind = "en" THEN text ELSE <<"e", DigitChars[i], DigitChars[j]>>,
             hi  |-> IF kind = "hi" THEN text ELSE <<"h", DigitChars[i], DigitChars[j]>>]]]]]

Shapes == SeqsUpTo(1..MaxRowsPerSection, MaxSections) \ {<<>>}
SampleShape == [i \in 1..MaxSections |-> IF i = 1 THEN MaxRowsPerSection ELSE 1]
SampleText == <<"\"", "&">>

\* documents as the handler builds them: at least one section, no section
\* without rows, no empty title, name or field.  escapeHtml acts on one string
\* and splitRows on one section's rows: every text is tried in every kind of
\* field of one shape, and every shape with one text in every kind of field.
Docs ==
    {DocOf(SampleShape, kind, text) : kind \in FieldKinds, text \in Texts}
    \cup {DocOf(shape, kind, SampleText) : shape \in Shapes, kind \in FieldKinds}

InitRender == ServerIdle /\ stage = "input" /\ input \in Docs /\ output = <<>>

Render ==
    /\ stage = "input"
    /\ stage' = "done"
    /\ output' = buildHtmlDoc(input)
    /\ UNCHANGED <<browser, inst, req, input>>

SpecRender == InitRender /\ [][Render]_vars

\* the elements of the template that hold a string of the document
SlotTags == {"<title>", "<h1>", "<h2>", "<td>", "<td class=hin>"}

RECURSIVE EmbeddedTexts(_, _)
\* re-parsing the markup: the text found in each element that holds a string of
\* the document, in the order of the markup
EmbeddedTexts(markup, i) ==
    LET m == RegexExec(markup, i, SlotTags, TemplateTokens)
    IN  IF ~m.found THEN <<>>
        ELSE <<m.group>> \o EmbeddedTexts(markup, m.lastIndex)

StartsWith(s, p) == Len(s) >= Len(p) /\ SubSeq(s, 1, Len(p)) = p

EntityAmp  == <<"&", "a", "m", "p", ";">>
EntityLt   == <<"&", "l", "t", ";">>
EntityGt   == <<"&", "g", "t", ";">>
EntityQuot == <<"&", "q", "u", "o", "t", ";">>
Entities == {EntityAmp, EntityLt, EntityGt, EntityQuot}

RECURSIVE Unescape(_)
\* what an HTML parser reads back from escaped text
Unescape(s) ==
    IF s = <<>> THEN <<>>
    ELSE IF StartsWith(s, EntityAmp)  THEN <<"&">>  \o Unescape(SubSeq(s, 6, Len(s)))
    ELSE IF StartsWith(s, EntityLt)   THEN <<"<">>  \o Unescape(SubSeq(s, 5, Len(s)))
    ELSE IF StartsWith(s, EntityGt)   THEN <<">">>  \o Unescape(SubSeq(s, 5, Len(s)))
    ELSE IF StartsWith(s, EntityQuot) THEN <<"\"">> \o Unescape(SubSeq(s, 7, Len(s)))
    ELSE <<Head(s)>> \o Unescape(Tail(s))

\* no raw <, > or ", and every & starts one of the four entities
IsEscapedText(s) ==
    \A i \in 1..Len(s) :
        /\ s[i] \notin {"<", ">", "\""}
        /\ s[i] = "&" => \E e \in Entities : StartsWith(SubSeq(s, i, Len(s)), e)

\* the strings of the document in the order the template embeds them
RowTexts(rows) == Flatten([j \in 1..Len(rows) |-> <<rows[j].sno, rows[j].en, rows[j].hi>>])

DocTexts(doc) ==
    <<doc.title, doc.title>>
        \o Flatten([i \in 1..Len(doc.sections) |->
                      <<doc.sections[i].name>> \o RowTexts(doc.sections[i].rows)])

\* C5: every string copied from the document into the markup (the title in
\* <title> and in <h1>, each section name, each row's serial, English and Hindi
\* field) is embedded escaped: the embedded text has no raw <, > or ", each of
\* its & starts &amp; &lt; &gt; or &quot;, and it reads back as the string.
C5_EveryFieldEscaped ==
    stage = "done" =>
        LET found == EmbeddedTexts(output, 1)
            want == DocTexts(input)
        IN  /\ Len(found) = Len(want)
            /\ \A k \in 1..Len(found) :
                  IsEscapedText(found[k]) /\ Unescape(found[k]) = want[k]
            /\ \A i \in 1..Len(output) : output[i] \notin {"<", ">", "\""}

\* C5 witness: a Hindi field made of a quote and an ampersand has been embedded
C5_Witness ==
    /\ stage = "done"
    /\ input.sections[1].rows[1].hi = <<"\"", "&">>
    /\ Len(input.sections[1].rows) = 2
    /\ \E i \in 1..Len(output) : output[i] = "<td class=hin>" /\ output[i + 1] = "&"

RECURSIVE SplitAfter(_, _)
\* the pieces of s that follow each occurrence of the token
SplitAfter(s, tok) ==
    LET o == FirstFrom(s, 1, {tok})
    IN  IF o = 0 THEN <<>>
        ELSE LET rest == SubSeq(s, o + 1, Len(s))
                 n == FirstFrom(rest, 1, {tok})
             IN  <<IF n = 0 THEN rest ELSE SubSeq(rest, 1, n - 1)>> \o SplitAfter(rest, tok)

CountToken(s, tok) == Cardinality({i \in 1..Len(s) : s[i] = tok})

\* C9: in the markup every section of n rows has two panes, the left one with
\* the first ceil(n/2) rows and the right one with the other floor(n/2) rows, and
\* the left pane's rows followed by the right pane's are the section's rows.
C9_PanesSplitRows ==
    stage = "done" =>
        LET secs == SplitAfter(output, "<div class=section>")
        IN  /\ Len(secs) = Len(input.sections)
            /\ \A k \in 1..Len(secs) :
                  LET panes == SplitAfter(secs[k], "<div class=pane>")
                      rows == input.sections[k].rows
                      n == Len(rows)
                      half == n \div 2
                      cells(p) == LET found == EmbeddedTexts(p, 1)
                                  IN  [c \in 1..Len(found) |-> Unescape(found[c])]
                  IN  /\ Len(panes) = 2
                      /\ CountToken(panes[1], "<tr>") = n - half
                      /\ CountToken(panes[2], "<tr>") = half
                      /\ cells(panes[1]) = RowTexts(SubSeq(rows, 1, n - half))
                      /\ cells(panes[2]) = RowTexts(SubSeq(rows, n - half + 1, n))

\* C9 witness: a section of 3 rows rendered with 2 rows left and 1 right
C9_Witness ==
    /\ stage = "done"
    /\ Len(input.sections) = 2
    /\ Len(input.sections[2].rows) = 3
    /\ LET panes == SplitAfter(SplitAfter(output, "<div class=section>")[2], "<div class=pane>")
       IN  CountToken(panes[1], "<tr>") = 2 /\ CountToken(panes[2], "<tr>") = 1

-----------------------------------------------------------------------------
(* The /pdf handler and getBrowser, index.ts:146-197                        *)
(*                                                                         *)
(* Node runs the handlers of concurrent requests on one thread: a handler  *)
(* runs without interruption from one await to the next, and any other     *)
(* handler may run while it is suspended.  Each action below is one such   *)
(* uninterrupted piece: it starts where an awaited promise settles and     *)
(* ends at the next await or at the response.                              *)
(*                                                                         *)
(* An engine instance is "live" from the moment launch resolves, "closing" *)
(* once close() has been called on it and "closed" when that call settles. *)
(* A page operation on a live instance succeeds or throws by itself; on a  *)
(* closed instance it throws; on a closing instance it may do either.      *)
(* close() itself is taken to succeed.                                     *)

MaxRequests == 3

Requests == 1..MaxRequests

\* the bodies posted to /pdf: one the schema rejects, one whose only card has no
\* table, and one with a card of one row
InvalidBody == [title |-> <<>>, cards |-> <<[title |-> <<"A">>, description |-> OneRow]>>]
EmptyBody   == [title |-> <<"T">>, cards |-> <<[title |-> <<"A">>, description |-> NoTable]>>]
ValidBody   == [title |-> <<"T">>, cards |-> <<[title |-> <<"A">>, description |-> NoTable],
                                               [title |-> <<"B">>, description |-> OneRow]>>]
Bodies == {InvalidBody, EmptyBody, ValidBody}

\* a request before it arrives
NewRequest ==
    [pc |-> "idle",       \* the await the handler is suspended at
     b |-> 0,             \* index.ts:176  the handler's own `browser`
     closing |-> 0,       \* index.ts:192  the instance whose close() is awaited
     sent |-> <<>>,       \* the responses sent, in order
     ops |-> <<>>,        \* the page calls that resolved, in order, until one throws
     cause |-> "",        \* the engine call that threw did so by itself ("own") or
                          \* because its instance was closed ("closed")
     stale |-> FALSE,     \* in the try block: getBrowser returned an instance that was
                          \* closing or closed
     afterFailure |-> FALSE]  \* some request had been answered 500 when this one arrived

InitServer ==
    /\ browser = 0
    /\ inst = <<>>
    /\ req = [r \in Requests |-> NewRequest]
    /\ PipelineIdle

Failed500 == {r \in Requests : "500" \in Range(req[r].sent)}

\* res.status(..).json(..) or res.send(pdf), followed by return: the handler's
\* locals are gone
Respond(rq, what) ==
    [rq EXCEPT !.sent = Append(@, what), !.pc = "done", !.b = 0, !.closing = 0,
               !.stale = FALSE]

\* index.ts:189-196, the catch block up to its await or, when the cached
\* reference is null, to the response.  rq is the request with what threw.
CatchBlock(r, rq) ==
    IF browser # 0
    THEN /\ inst' = [inst EXCEPT ![browser] = IF @ = "closed" THEN "closed" ELSE "closing"]
         /\ req' = [req EXCEPT ![r] = [rq EXCEPT !.pc = "browserClose", !.closing = browser]]
         /\ UNCHANGED browser
    ELSE /\ browser' = 0
         /\ req' = [req EXCEPT ![r] = Respond(rq, "500")]
         /\ UNCHANGED inst

\* an awaited engine call of request r throws
Throws(r, why) ==
    CatchBlock(r, [req[r] EXCEPT !.cause = why, !.ops = <<>>, !.stale = FALSE])

\* how a page operation on instance i may end
MayResolve(i) == inst[i] \in {"live", "closing"}
MayThrow(i) == IF inst[i] = "live" THEN {"own"} ELSE {"closed"}

\* index.ts:158-176: the request arrives; validation, extraction and
\* buildHtmlDoc run, then getBrowser up to its await (index.ts:148-149) or its
\* return (index.ts:153)
Start(r) ==
    /\ req[r].pc = "idle"
    /\ IF r = 1 THEN TRUE ELSE req[r - 1].pc # "idle"   \* numbered as they arrive
    /\ \E body \in Bodies :
          LET n == Normalize(body)
              rq == [req[r] EXCEPT !.afterFailure = Failed500 # {}]
          IN  CASE n.outcome = "invalid" ->
                     /\ req' = [req EXCEPT ![r] = Respond(rq, "400 invalid")]
                     /\ UNCHANGED <<browser, inst>>
                [] n.outcome = "empty" ->
                     /\ req' = [req EXCEPT ![r] = Respond(rq, "400 empty")]
                     /\ UNCHANGED <<browser, inst>>
                [] n.outcome = "render" ->
                     /\ buildHtmlDoc(n.doc) # <<>>
                     /\ IF browser = 0
                        THEN req' = [req EXCEPT ![r] = [rq EXCEPT !.pc = "launch"]]
                        ELSE req' = [req EXCEPT ![r] =
                                [rq EXCEPT !.pc = "newPage", !.b = browser,
                                           !.stale = inst[browser] # "live"]]
                     /\ UNCHANGED <<browser, inst>>
    /\ UNCHANGED <<stage, input, output>>

\* index.ts:149-153 and 176-177: puppeteer.launch resolves; the new instance is
\* stored in the module's `browser`, returned, and newPage is called on it
LaunchResolves(r) ==
    /\ req[r].pc = "launch"
    /\ inst' = Append(inst, "live")
    /\ browser' = Len(inst) + 1
    /\ req' = [req EXCEPT ![r] = [@ EXCEPT !.pc = "newPage", !.b = Len(inst) + 1]]
    /\ UNCHANGED <<stage, input, output>>

\* index.ts:149: puppeteer.launch throws; getBrowser rejects into the catch block
LaunchThrows(r) ==
    /\ req[r].pc = "launch"
    /\ Throws(r, "own")
    /\ UNCHANGED <<stage, input, output>>

\* an awaited page call resolves and the handler runs on to the next await
Resolves(r, op, next) ==
    /\ req[r].pc = op
    /\ MayResolve(req[r].b)
    /\ req' = [req EXCEPT ![r] = [@ EXCEPT !.pc = next, !.ops = Append(@, op)]]
    /\ UNCHANGED <<browser, inst, stage, input, output>>

\* an awaited page call throws
PageCallThrows(r, op) ==
    /\ req[r].pc = op
    /\ \E why \in MayThrow(req[r].b) : Throws(r, why)
    /\ UNCHANGED <<stage, input, output>>

\* index.ts:177-178
NewPageResolves(r) == Resolves(r, "newPage", "setContent")
NewPageThrows(r) == PageCallThrows(r, "newPage")

\* index.ts:178-179
SetContentResolves(r) == Resolves(r, "setContent", "pdf")
SetContentThrows(r) == PageCallThrows(r, "setContent")

\* PdfResolves answering with the bytes before page.close() is awaited
PdfResolves_SendsEarly(r) ==
    /\ req[r].pc = "pdf"
    /\ MayResolve(req[r].b)
    /\ req' = [req EXCEPT ![r] = [@ EXCEPT !.pc = "pageClose", !.ops = Append(@, "pdf"),
                                           !.sent = Append(@, "200 pdf")]]
    /\ UNCHANGED <<browser, inst, stage, input, output>>

\* index.ts:179-184: page.pdf resolves with the bytes; page.close is called
PdfResolves(r) ==
    /\ req[r].pc = "pdf"
    /\ MayResolve(req[r].b)
    /\ req' = [req EXCEPT ![r] = [@ EXCEPT !.pc = "pageClose", !.ops = Append(@, "pdf")]]
    /\ UNCHANGED <<browser, inst, stage, input, output>>

PdfThrows(r) == PageCallThrows(r, "pdf")

\* index.ts:184-188: page.close resolves; the PDF is sent
PageCloseResolves(r) ==
    /\ req[r].pc = "pageClose"
    /\ MayResolve(req[r].b)
    /\ req' = [req EXCEPT ![r] = Respond([@ EXCEPT !.ops = Append(@, "pageClose")], "200 pdf")]
    /\ UNCHANGED <<browser, inst, stage, input, output>>

PageCloseThrows(r) == PageCallThrows(r, "pageClose")

\* index.ts:192-195: browser.close() settles; the cached reference is reset and
\* the 500 is sent
BrowserCloseSettles(r) ==
    /\ req[r].pc = "browserClose"
    /\ inst' = [inst EXCEPT ![req[r].closing] = "closed"]
    /\ browser' = 0
    /\ req' = [req EXCEPT ![r] = Respond(@, "500")]
    /\ UNCHANGED <<stage, input, output>>

Next ==
    \E r \in Requests :
        \/ Start(r)
        \/ LaunchResolves(r)
        \/ LaunchThrows(r)
        \/ NewPageResolves(r)
        \/ NewPageThrows(r)
        \/ SetContentResolves(r)
        \/ SetContentThrows(r)
        \/ PdfResolves(r)
        \/ PdfThrows(r)
        \/ PageCloseResolves(r)
        \/ PageCloseThrows(r)
        \/ BrowserCloseSettles(r)

Spec == InitServer /\ [][Next]_vars

\* the instances launched and not yet closed
NotClosed == {i \in 1..Len(inst) : inst[i] # "closed"}

\* C1 (as claimed): under any interleaving at most one engine instance is
\* launched and not yet closed, and no such instance exists without being the
\* cached one.
C1_AtMostOneLiveInstance ==
    /\ Cardinality(NotClosed) <= 1
    /\ \A i \in NotClosed : browser = i

\* C2 (as claimed): when a request that failed at an engine step sends its 500,
\* close() has been called on the instance the request was using and the cached
\* reference is null.
C2_FailureClosesOwnInstance ==
    [][\A r \in Requests :
          ("500" \notin Range(req[r].sent) /\ "500" \in Range(req'[r].sent)) =>
              /\ browser' = 0
              /\ req[r].b # 0 => inst'[req[r].b] # "live"]_vars

\* the request ran the try block: it was neither rejected nor empty
Rendering(r) == req[r].pc # "idle" /\ Range(req[r].sent) \cap {"400 invalid", "400 empty"} = {}

\* C3 (as claimed): a valid request that arrives after some request was answered
\* 500, and none of whose engine calls throws by itself, is never handed a
\* closing or closed instance and ends with the PDF.
C3_LaterRequestSucceeds ==
    \A r \in Requests :
        (req[r].afterFailure /\ Rendering(r) /\ req[r].cause # "own") =>
            /\ ~req[r].stale
            /\ req[r].cause = ""
            /\ req[r].pc = "done" => req[r].sent = <<"200 pdf">>

PageCalls == <<"newPage", "setContent", "pdf", "pageClose">>

\* C10: a request sends at most one response and exactly one when it ends: the
\* PDF, sent only after page.pdf and page.close both resolved and no engine call
\* of the request threw, or one of the three errors; after a throw the handler
\* makes no further page call (no retry), and no page call is made twice.
C10_OneResponseAllOrNothing ==
    \A r \in Requests :
        LET rq == req[r]
        IN  /\ Len(rq.sent) <= 1
            /\ (rq.pc = "done") = (Len(rq.sent) = 1)
            /\ Range(rq.sent) \subseteq {"200 pdf", "400 invalid", "400 empty", "500"}
            /\ "200 pdf" \in Range(rq.sent) => rq.ops = PageCalls /\ rq.cause = ""
            /\ "500" \in Range(rq.sent) => rq.cause # ""
            /\ Range(rq.sent) \cap {"400 invalid", "400 empty"} # {} =>
                  rq.ops = <<>> /\ rq.cause = ""
            /\ rq.ops = SubSeq(PageCalls, 1, Len(rq.ops))
            /\ rq.cause # "" => rq.pc \in {"browserClose", "done"}

\* C10 witness: three requests ended, one with the PDF, one with the 500 after
\* page.close threw, one with a 400
C10_Witness ==
    /\ req[1].sent = <<"200 pdf">>
    /\ req[2].sent = <<"500">> /\ req[2].cause = "own"
    /\ req[3].sent = <<"400 empty">>

====
